---------------------------- MODULE Spec2Model ----------------------------
(***************************************************************************)
(* A model of the query modelling service of src/query_modelling.py and   *)
(* of the corpus statistics of src/wikipediaCount.py.                     *)
(*                                                                         *)
(* Text is a sequence of one-character strings.  A term is such a         *)
(* sequence too.  The code is Python 2: the division of two ints floors.  *)
(***************************************************************************)
EXTENDS Integers, Sequences, FiniteSets, TLC

(***************************************************************************)
(* Bounds of the model.                                                    *)
(***************************************************************************)
\* Longest query text given to a direct call of reformulate.
MaxLen == 3
\* Largest distance, in minutes, between two timestamps of a session given
\* to a direct call of model.
MaxGap == 2
\* The last minute the server's clock reaches, counted from when it starts.
MaxClock == 1
\* Largest top_n a QueryModeller is constructed with.
MaxTopN == 2
\* Number of requests the server handles in one run.
MaxRequests == 2

(***************************************************************************)
(* Characters.                                                             *)
(***************************************************************************)
\* The characters query texts are made of.
Chars == {"a", "A", "b", " ", "."}

\* str.lower() of one character.
LowerChar(c) ==
    CASE c = "A" -> "a"
      [] c = "B" -> "b"
      [] OTHER -> c

\* str.lower(): every character lowered.
Lower(s) == [i \in 1..Len(s) |-> LowerChar(s[i])]

\* The regular expression classes \w and \s of nltk's wordpunct_tokenize.
IsWordChar(c) == c \in {"a", "A", "b", "B", "q", "u", "e", "r", "y"}
IsSpaceChar(c) == c = " "
CharClass(c) ==
    IF IsSpaceChar(c) THEN "space"
    ELSE IF IsWordChar(c) THEN "word" ELSE "punct"

\* Length of the longest prefix of s whose characters have the class of s[1].
RunLen(s) ==
    CHOOSE n \in 1..Len(s) :
        /\ \A i \in 1..n : CharClass(s[i]) = CharClass(s[1])
        /\ n = Len(s) \/ CharClass(s[n + 1]) # CharClass(s[1])

\* nltk.wordpunct_tokenize: the matches of \w+|[^\w\s]+, left to right.
RECURSIVE wordpunct_tokenize(_)
wordpunct_tokenize(s) ==
    IF s = << >> THEN << >>
    ELSE IF CharClass(Head(s)) = "space" THEN wordpunct_tokenize(Tail(s))
    ELSE LET n == RunLen(s)
         IN  <<SubSeq(s, 1, n)>> \o wordpunct_tokenize(SubSeq(s, n + 1, Len(s)))

\* QueryModeller.skip_terms.
skip_terms ==
    { <<",">>, <<".">>, <<".", ".", ".">>, <<"'">>, <<"\"">>, <<"-">>, <<"!">>,
      <<":">>, <<"(">>, <<")">>, <<"?">>, <<"*">>, <<"%">>, <<"'", ":">>,
      <<"\\">> }

\* The tokens that are not skip terms, in order.
RECURSIVE SelectTerms(_)
SelectTerms(tokens) ==
    IF tokens = << >> THEN << >>
    ELSE IF Head(tokens) \in skip_terms THEN SelectTerms(Tail(tokens))
    ELSE <<Head(tokens)>> \o SelectTerms(Tail(tokens))

\* QueryModeller.tokenize: the first character is lowered, the text split,
\* the skip terms dropped.
tokenize(string) ==
    IF Len(string) = 0 THEN << >>
    ELSE SelectTerms(wordpunct_tokenize(<<LowerChar(string[1])>> \o Tail(string)))


(***************************************************************************)
(* State.                                                                  *)
(***************************************************************************)
VARIABLES
    labels,     \* the records of nlwiki-latest/label.csv, an input
    config,     \* config["weights"] of query_modelling.yaml, an input
    pcMain,     \* the position of the start-up: the imports, then main()
    linenr,     \* the number of label records read so far
    counts,     \* wikipediaCount.counts: term -> the four counters
    corpus,     \* the local variable corpus of main()
    QM,         \* the QueryModeller: its corpus, weights and top_n
    sessions,   \* query_modelling.sessions: session id -> list of entries
    clock,      \* the wall clock as it was last read, in minutes
    reqs,       \* the requests being handled, each with its position
    arrivals,   \* history: per session id, the queries posted, as they arrived
    call        \* the last direct call of reformulate or model, and its result

vars == <<labels, config, pcMain, linenr, counts, corpus, QM, sessions, clock,
          reqs, arrivals, call>>

(***************************************************************************)
(* wikipediaCount.py: the counters and their ranges.                       *)
(*                                                                         *)
(* The counters anchor_tf, anchor_df, text_tf and text_df are ints in the  *)
(* code and are modelled exactly.  The features derived with log and exp   *)
(* (the idf, ridf and log_ features) are floats; they are left out, and    *)
(* the weight vectors of the model name none of them, so that by line 102  *)
(* of query_modelling.py they add nothing to a score.                      *)
(***************************************************************************)
IntFeatures == {"anchor_tf", "anchor_df", "text_tf", "text_df"}

\* counts.get(query, [0, 0, 1, 1])
counts_get(cnt, query) ==
    IF query \in DOMAIN cnt THEN cnt[query] ELSE <<0, 0, 1, 1>>

\* wikipedia_count(query): the features of a term, from the loaded counts.
wikipedia_count(query) ==
    LET row == counts_get(counts, query)
    IN  [anchor_tf |-> row[1], anchor_df |-> row[2],
         text_tf |-> row[3], text_df |-> row[4]]

FeatureIndex(f) ==
    CASE f = "anchor_tf" -> 1
      [] f = "anchor_df" -> 2
      [] f = "text_tf" -> 3
      [] f = "text_df" -> 4

SetMin(S) == CHOOSE x \in S : \A y \in S : x <= y
SetMax(S) == CHOOSE x \in S : \A y \in S : x >= y

\* feature_ranges() over the counts cnt: per feature, the least and the
\* greatest value among the terms of the vocabulary.
ranges_over(cnt) ==
    [f \in IntFeatures |->
        LET vals == {cnt[t][FeatureIndex(f)] : t \in DOMAIN cnt}
        IN  <<SetMin(vals), SetMax(vals)>>]

\* feature_ranges(): over the counts as they are when it is called.
feature_ranges == ranges_over(counts)

\* The loop body of lines 29-39: the counters of one record are added to
\* every token of its text.
RECURSIVE add_terms(_, _, _)
add_terms(cnt, terms, stats) ==
    IF terms = << >> THEN cnt
    ELSE LET term == Lower(Head(terms))
             new == IF term \in DOMAIN cnt
                    THEN [cnt EXCEPT ![term] = [i \in 1..4 |-> @[i] + stats[i]]]
                    ELSE cnt @@ (term :> stats)
         IN  add_terms(new, Tail(terms), stats)

\* One pass of the loop of line 22 over a well-formed record.
load_line(cnt, rec) == add_terms(cnt, wordpunct_tokenize(rec.text), rec.stats)

\* The counts after the first n records.
RECURSIVE load_prefix(_, _)
load_prefix(file, n) ==
    IF n = 0 THEN << >>
    ELSE load_line(load_prefix(file, n - 1), file[n])

(***************************************************************************)
(* query_modelling.py: Corpus.                                             *)
(***************************************************************************)
NoCorpus == [isNone |-> TRUE, ranges |-> << >>]

\* Corpus(): the ranges are computed when the object is made.
Corpus_init == [isNone |-> FALSE, ranges |-> feature_ranges]

\* Corpus.feature_normalize: ints divided by Python 2's flooring division.
feature_normalize(self, feature, value) ==
    LET feature_range == self.ranges[feature][2] - self.ranges[feature][1]
    IN  IF feature_range # 0
        THEN (value - self.ranges[feature][1]) \div feature_range
        ELSE 0

\* Lines 99-100: the counters of the lowered term, each normalized.
normalized_counts(self, term) ==
    LET cnts == wikipedia_count(Lower(term))
    IN  [f \in DOMAIN cnts |-> feature_normalize(self, f, cnts[f])]

\* Line 101: term != term.lower(), as the number it is in the sum.
is_capitalized(term) == IF term # Lower(term) THEN 1 ELSE 0

RECURSIVE SumOver(_, _)
SumOver(S, val) ==
    IF S = {} THEN 0
    ELSE LET x == CHOOSE y \in S : TRUE
         IN  val[x] + SumOver(S \ {x}, val)

\* Corpus.score: the lowered term and the weighted sum of its features.
Corpus_score(self, term, weights) ==
    LET cnts == normalized_counts(self, term)
                    @@ [f \in {"is_capitalized"} |-> is_capitalized(term)]
        used == DOMAIN cnts \cap DOMAIN weights
    IN  <<Lower(term), SumOver(used, [f \in used |-> cnts[f] * weights[f]])>>

(***************************************************************************)
(* query_modelling.py: QueryModeller.                                      *)
(*                                                                         *)
(* decay_base is 0.81 and decay_scale is 1/60 per second: a gap of k       *)
(* minutes decays a weight by (81/100)^k.  A weight that went through a    *)
(* dict of reformulate or model is held in fixed point, as a whole number  *)
(* of Unit-ths, which is exact for gaps up to MaxGap.                      *)
(***************************************************************************)
DecayNum == 81
DecayDen == 100
Unit == DecayDen ^ MaxGap

\* The number w in fixed point.
Fixed(w) == w * Unit

\* QueryModeller.weigh
weigh(term) == Corpus_score(QM.corpus, term, QM.weights)

\* QueryModeller.weighted_terms: the (term, weight) pairs of the tokens.
weighted_terms(query) ==
    LET tokens == tokenize(query)
    IN  [i \in 1..Len(tokens) |-> weigh(tokens[i])]

\* {t: w for (t, w) in pairs}: the last pair of a term is the one kept.
dict_of(pairs) ==
    LET keys == {pairs[i][1] : i \in 1..Len(pairs)}
    IN  [t \in keys |->
            Fixed(pairs[SetMax({i \in 1..Len(pairs) : pairs[i][1] = t})][2])]

\* The dict reformulate hands to get_top_n.
reformulate_terms(query) == dict_of(weighted_terms(query))

\* The orders a dict's items() may come in: the hash order of the keys is
\* not an order the program controls.
RECURSIVE Perms(_)
Perms(S) ==
    IF S = {} THEN { << >> }
    ELSE UNION { { <<x>> \o p : p \in Perms(S \ {x}) } : x \in S }

\* sorted(items, key=weight, reverse=True): stable, so that items of equal
\* weight keep the order they came in.
RECURSIVE sorted_by_weight_desc(_)
sorted_by_weight_desc(items) ==
    IF items = << >> THEN << >>
    ELSE LET rest == sorted_by_weight_desc(SubSeq(items, 1, Len(items) - 1))
             item == items[Len(items)]
             k == Cardinality({i \in 1..Len(rest) : rest[i][2] >= item[2]})
         IN  SubSeq(rest, 1, k) \o <<item>> \o SubSeq(rest, k + 1, Len(rest))

\* A plausible slip: the ranking is not cut.
get_top_n_uncut(weighted, order) ==
    sorted_by_weight_desc([i \in 1..Len(order) |-> <<order[i], weighted[order[i]]>>])

\* QueryModeller.get_top_n over a dict whose items() come in `order`.
get_top_n(weighted, order) ==
    LET items == [i \in 1..Len(order) |-> <<order[i], weighted[order[i]]>>]
        ranked == sorted_by_weight_desc(items)
        n == IF QM.top_n < Len(ranked) THEN QM.top_n ELSE Len(ranked)
    IN  SubSeq(ranked, 1, n)

\* The six digits "%f" prints after the point.
Micro == 1000000

\* "%f" % weight, as a number of millionths: exact while Unit divides Micro,
\* rounded to the nearest millionth beyond.
FormatF(weight) ==
    IF Unit <= Micro
    THEN weight * (Micro \div Unit)
    ELSE (weight + (Unit \div Micro) \div 2) \div (Unit \div Micro)

RECURSIVE positive_terms(_)
positive_terms(ranked) ==
    IF ranked = << >> THEN << >>
    ELSE IF Head(ranked)[2] > 0
         THEN <<<<Head(ranked)[1], FormatF(Head(ranked)[2])>>>>
                  \o positive_terms(Tail(ranked))
         ELSE positive_terms(Tail(ranked))

\* QueryModeller.terms_to_query without a "field" entry in the weights: the
\* "term^weight" pieces of the positive weights, in order.
terms_to_query(ranked) == positive_terms(ranked)

\* terms_to_query(get_top_n(weighted)) over a dict whose items() may come in
\* any order.  The sort is stable, so that items of equal weight stay in the
\* order they came in: the rankings are the arrangements of the items by
\* weight, descending, items of equal weight in any order, cut to n.  Once the
\* greatest weight left is not positive, every item left is dropped from the
\* text, whatever its place.
RECURSIVE query_any_order(_, _)
query_any_order(items, n) ==
    IF n = 0 \/ items = {} THEN { << >> }
    ELSE LET top == SetMax({item[2] : item \in items})
         IN  IF top <= 0 THEN { << >> }
             ELSE UNION { { << <<item[1], FormatF(top)>> >> \o rest :
                              rest \in query_any_order(items \ {item}, n - 1) } :
                          item \in {i \in items : i[2] = top} }

terms_to_query_any_order(weighted) ==
    UNION { query_any_order(items, QM.top_n) :
            items \in { {<<t, weighted[t]>> : t \in DOMAIN weighted} } }

\* datetime.isoformat() and dateutil's parser.parse() of what it printed.
isoformat(t) == [iso |-> t]
parse(s) == s.iso

\* A plausible slip: the gap is taken in whole days, (new - old).days, which
\* is 0 for the gaps of a session.
decay_in_days(old, new) == Unit

\* QueryModeller._decay in fixed point: decay_base ^ (decay_scale * delta).
decay(old, new) == (DecayNum ^ (new - old)) * (DecayDen ^ (MaxGap - (new - old)))

\* sorted(queries, key=datetime): stable.
RECURSIVE sorted_by_dt(_)
sorted_by_dt(queries) ==
    IF queries = << >> THEN << >>
    ELSE LET rest == sorted_by_dt(SubSeq(queries, 1, Len(queries) - 1))
             q == queries[Len(queries)]
             k == Cardinality({i \in 1..Len(rest) : rest[i][2] <= q[2]})
         IN  SubSeq(rest, 1, k) \o <<q>> \o SubSeq(rest, k + 1, Len(rest))

\* Lines 179-181: query_terms[term] = max(weight * decay, query_terms[term]),
\* where a term not yet in the defaultdict(float) reads as 0.0.
RECURSIVE merge_terms(_, _, _)
merge_terms(query_terms, pairs, d) ==
    IF pairs = << >> THEN query_terms
    ELSE LET term == Head(pairs)[1]
             old == IF term \in DOMAIN query_terms THEN query_terms[term] ELSE 0
             new == IF Head(pairs)[2] * d >= old THEN Head(pairs)[2] * d ELSE old
         IN  merge_terms(
                 [t \in DOMAIN query_terms \cup {term} |->
                     IF t = term THEN new ELSE query_terms[t]],
                 Tail(pairs), d)

\* The loop of line 176 over the first n of the ordered queries.
RECURSIVE merge_queries(_, _, _)
merge_queries(ordered, n, most_recent_dt) ==
    IF n = 0 THEN << >>
    ELSE merge_terms(merge_queries(ordered, n - 1, most_recent_dt),
                     weighted_terms(ordered[n][1]),
                     decay(ordered[n][2], most_recent_dt))

\* Line 174: ordered_queries[-1] of an empty list raises IndexError.
model_raises(queries) == Len(queries) = 0

\* The dict model hands to get_top_n, for a session that is not empty.
model_terms(queries) ==
    LET parsed == [i \in 1..Len(queries) |->
                      <<queries[i].query, parse(queries[i].datetime)>>]
        ordered_queries == sorted_by_dt(parsed)
        most_recent_dt == ordered_queries[Len(ordered_queries)][2]
    IN  merge_queries(ordered_queries, Len(ordered_queries), most_recent_dt)

(***************************************************************************)
(* Inputs.                                                                 *)
(***************************************************************************)
\* Label files.  In the first, an unseen term has the counters of "a"; in
\* the second, both terms of the vocabulary occur more often than an unseen
\* term is taken to; the third has one term, so that every range is
\* degenerate.
LabelFileLow ==
    << [text |-> <<"a">>, stats |-> <<0, 0, 1, 1>>, ok |-> TRUE],
       [text |-> <<"b">>, stats |-> <<2, 1, 3, 2>>, ok |-> TRUE] >>
LabelFileHigh ==
    << [text |-> <<"A", " ", "b">>, stats |-> <<2, 1, 3, 2>>, ok |-> TRUE],
       [text |-> <<"a">>, stats |-> <<1, 1, 2, 2>>, ok |-> TRUE] >>
LabelFileOne ==
    << [text |-> <<"a">>, stats |-> <<1, 1, 2, 1>>, ok |-> TRUE] >>
LabelFiles == {LabelFileLow, LabelFileHigh, LabelFileOne}

\* A label file whose second record does not parse.
BadLabelFile ==
    << [text |-> <<"a">>, stats |-> <<1, 1, 2, 1>>, ok |-> TRUE],
       [text |-> <<"b">>, stats |-> <<0, 0, 0, 0>>, ok |-> FALSE] >>

\* Weight vectors: config["weights"].  None has a "field" entry.
WeightValues == {-1, 1, 2}
WeightVectors ==
    UNION { [K -> WeightValues] :
            K \in { {}, {"is_capitalized"}, {"anchor_tf"},
                    {"text_tf", "is_capitalized"} } }

\* The texts of at most n characters.
Strings(n) == UNION { [1..k -> Chars] : k \in 0..n }

\* The query texts of the entries of a session.
EntryQueries ==
    { << >>, <<"a">>, <<"b">>, <<"A">>, <<".">>, <<"a", "b">>, <<"b", "a">>,
      <<"a", " ", "A">>, <<"A", " ", "b">> }

Entries ==
    { [query |-> q, datetime |-> isoformat(t)] : q \in EntryQueries, t \in 0..MaxGap }

\* The sessions given to model: of no, one or two entries.
Sessions ==
    { << >> } \cup { <<e>> : e \in Entries }
              \cup { <<e1, e2>> : e1 \in Entries, e2 \in Entries }

\* The requests posted to the server.
SessionIds == {"s1", "s2"}
PostedQueries == { <<"a">>, <<"A", " ", "b">> }
ServerLabelFiles == {LabelFileHigh, BadLabelFile}
ServerWeights ==
    { [f \in {"text_tf", "is_capitalized"} |-> IF f = "text_tf" THEN 2 ELSE -1] }

\* top_n of QueryModeller() as line 194 constructs it.
DefaultTopN == 25

\* The body a client posts, as the module's documentation has it: the JSON
\* object {"query": "<query>"}.
JsonBody(query) ==
    <<"{", "\"", "q", "u", "e", "r", "y", "\"", ":", " ", "\"">>
        \o query \o <<"\"", "}">>

\* _get_data(): the body as it was read, under the key "query".
get_data(body) == [query |-> body]

NoResponse == [outcome |-> "none", text |-> << >>]

IdleRequest ==
    [pc |-> "idle", route |-> "none", session |-> "none", query |-> << >>,
     data |-> [query |-> << >>, datetime |-> isoformat(0)],
     after |-> << >>, seen |-> << >>, response |-> NoResponse]

(***************************************************************************)
(* Direct calls of QM.reformulate and QM.model on a loaded corpus.         *)
(***************************************************************************)
NoCall ==
    [op |-> "none", query |-> << >>, session |-> << >>, order |-> << >>,
     outcome |-> "none", ranked |-> << >>, text |-> << >>]

InitScore ==
    /\ labels \in LabelFiles
    /\ config \in WeightVectors
    /\ pcMain = "serving"
    /\ linenr = Len(labels)
    /\ counts = load_prefix(labels, Len(labels))
    /\ corpus = [isNone |-> FALSE, ranges |-> ranges_over(counts)]
    /\ \E n \in 1..MaxTopN : QM = [corpus |-> corpus, weights |-> config, top_n |-> n]
    /\ sessions = << >>
    /\ clock = 0
    /\ reqs = [r \in 1..MaxRequests |-> IdleRequest]
    /\ arrivals = [sid \in SessionIds |-> << >>]
    /\ call = NoCall

\* QM.reformulate(query), once per run.
CallReformulate ==
    /\ call.op = "none"
    /\ \E query \in Strings(MaxLen) :
        \E terms \in {reformulate_terms(query)} :
          \E order \in Perms(DOMAIN terms) :
            \E ranked \in {get_top_n(terms, order)} :
              call' = [op |-> "reformulate", query |-> query, session |-> << >>,
                       order |-> order, outcome |-> "ok", ranked |-> ranked,
                       text |-> terms_to_query(ranked)]
    /\ UNCHANGED <<labels, config, pcMain, linenr, counts, corpus, QM,
                   sessions, clock, reqs, arrivals>>

\* A plausible slip: an empty session is answered with an empty query.
model_result_empty_ok(queries, terms, order) ==
    LET ranked == IF model_raises(queries) THEN << >> ELSE get_top_n(terms, order)
    IN  [outcome |-> "ok", ranked |-> ranked, text |-> terms_to_query(ranked)]

\* QueryModeller.model: what the call ends in, where terms is the dict
\* query_terms and its items() come in `order`.
model_result(queries, terms, order) ==
    IF model_raises(queries)
    THEN [outcome |-> "IndexError", ranked |-> << >>, text |-> << >>]
    ELSE LET ranked == get_top_n(terms, order)
         IN  [outcome |-> "ok", ranked |-> ranked, text |-> terms_to_query(ranked)]

\* The dict query_terms of lines 169-181; the loop is not reached when line
\* 174 raises.
query_terms_of(queries) ==
    IF model_raises(queries) THEN << >> ELSE model_terms(queries)

\* QM.model(session), once per run.
CallModel ==
    /\ call.op = "none"
    /\ \E session \in Sessions :
        \E terms \in {query_terms_of(session)} :
          \E order \in Perms(DOMAIN terms) :
            \E res \in {model_result(session, terms, order)} :
              call' = [op |-> "model", query |-> << >>, session |-> session,
                       order |-> order, outcome |-> res.outcome,
                       ranked |-> res.ranked, text |-> res.text]
    /\ UNCHANGED <<labels, config, pcMain, linenr, counts, corpus, QM,
                   sessions, clock, reqs, arrivals>>

NextScore == CallReformulate \/ CallModel

SpecScore == InitScore /\ [][NextScore]_vars

(***************************************************************************)
(* Properties of the direct calls.                                         *)
(***************************************************************************)
\* The texts the last call scored.
CallTexts ==
    IF call.op = "reformulate" THEN {call.query}
    ELSE {call.session[i].query : i \in 1..Len(call.session)}

\* The terms of a sequence of (term, score) pairs, and the greatest score
\* among the pairs of term t.
TermsOfPairs(pairs) == {pairs[i][1] : i \in 1..Len(pairs)}
MaxScoreOf(pairs, t) ==
    SetMax({pairs[i][2] : i \in {j \in 1..Len(pairs) : pairs[j][1] = t}})

\* The place of term t in a ranking, 0 when it is not in it.
PlaceOf(ranked, t) ==
    IF \E i \in 1..Len(ranked) : ranked[i][1] = t
    THEN CHOOSE i \in 1..Len(ranked) : ranked[i][1] = t
    ELSE 0

\* The place of term t among the items of the dict, 0 when it is no key.
PlaceInOrder(order, t) ==
    IF \E i \in 1..Len(order) : order[i] = t
    THEN CHOOSE i \in 1..Len(order) : order[i] = t
    ELSE 0

\* C3: a session of exactly one query is ranked by model as reformulate ranks
\* that query: the same terms with the same scores in the same order (the
\* items of the two dicts coming in the same order).
C3_SingleQuerySessionAsReformulate ==
    (call.op = "model" /\ Len(call.session) = 1)
        => call.ranked = get_top_n(reformulate_terms(call.session[1].query), call.order)

\* C4: the ranking get_top_n returns, for reformulate and for model on a
\* session that is not empty, has at most top_n entries, holds each term at
\* most once, and its scores never increase.
C4_RankedBoundedDistinctSorted ==
    call.outcome = "ok" =>
        /\ Len(call.ranked) <= QM.top_n
        /\ \A i, j \in 1..Len(call.ranked) :
              call.ranked[i][1] = call.ranked[j][1] => i = j
        /\ \A i \in 1..(Len(call.ranked) - 1) :
              call.ranked[i][2] >= call.ranked[i + 1][2]

\* C4's case: model ranked more terms than top_n, cut the ranking to two
\* entries of different scores, and the first is not the dict's first item.
C4_Witness ==
    /\ call.op = "model" /\ call.outcome = "ok"
    /\ Len(call.order) > QM.top_n
    /\ Len(call.ranked) = 2
    /\ call.ranked[1][2] > call.ranked[2][2]
    /\ call.ranked[1][1] # call.order[1]

\* The texts taken for a handler's call are the texts terms_to_query gives
\* on the rankings of get_top_n, over the orders the items of the dict of the
\* last call may come in; the text of the last call is one of them.
AnyOrderIsEveryOrder ==
    call.outcome = "ok" =>
        \E terms \in { IF call.op = "reformulate"
                        THEN reformulate_terms(call.query)
                        ELSE model_terms(call.session) } :
            /\ terms_to_query_any_order(terms)
                  = { terms_to_query(get_top_n(terms, order)) :
                        order \in Perms(DOMAIN terms) }
            /\ call.text \in terms_to_query_any_order(terms)

\* C5: model on an empty session returns no weighted query but ends in an
\* error of that call, and the corpus, its ranges, the weights and the stored
\* sessions are what they were.
C5_EmptySessionFails ==
    [][(call'.op = "model" /\ call'.session = << >>)
          => /\ call'.outcome = "IndexError"
             /\ call'.ranked = << >> /\ call'.text = << >>
             /\ UNCHANGED <<counts, corpus, QM, sessions>>]_vars

\* C5's case: model was called on the empty session and raised.
C5_Witness ==
    call.op = "model" /\ call.session = << >> /\ call.outcome = "IndexError"

\* The two entries of a session of two timestamps, the later one first.
LaterEntry ==
    IF parse(call.session[1].datetime) > parse(call.session[2].datetime)
    THEN call.session[1] ELSE call.session[2]
EarlierEntry ==
    IF parse(call.session[1].datetime) > parse(call.session[2].datetime)
    THEN call.session[2] ELSE call.session[1]

TwoTimestamps ==
    /\ call.op = "model" /\ Len(call.session) = 2
    /\ parse(call.session[1].datetime) # parse(call.session[2].datetime)

\* Term a is ranked above term b: where b is in the ranking, a is in it, at
\* an earlier place.
RankedAbove(a, b) ==
    PlaceOf(call.ranked, b) # 0 =>
        (PlaceOf(call.ranked, a) # 0 /\ PlaceOf(call.ranked, a) < PlaceOf(call.ranked, b))

\* C7, as claimed: in a session of two queries of different timestamps, a term
\* only in the later query is ranked above a term only in the earlier query
\* whenever the two have equal undecayed scores.
C7_LaterAboveEarlier_AsClaimed ==
    TwoTimestamps =>
        LET later == weighted_terms(LaterEntry.query)
            earlier == weighted_terms(EarlierEntry.query)
        IN  \A a \in TermsOfPairs(later) \ TermsOfPairs(earlier) :
              \A b \in TermsOfPairs(earlier) \ TermsOfPairs(later) :
                MaxScoreOf(later, a) = MaxScoreOf(earlier, b) => RankedAbove(a, b)

\* C7, amended: in a session of two queries of different timestamps, a term
\* only in the later query is ranked above a term only in the earlier query
\* whenever the two have equal undecayed scores and that score is positive.
C7_LaterAboveEarlier_Positive ==
    TwoTimestamps =>
        LET later == weighted_terms(LaterEntry.query)
            earlier == weighted_terms(EarlierEntry.query)
        IN  \A a \in TermsOfPairs(later) \ TermsOfPairs(earlier) :
              \A b \in TermsOfPairs(earlier) \ TermsOfPairs(later) :
                ( /\ MaxScoreOf(later, a) = MaxScoreOf(earlier, b)
                  /\ MaxScoreOf(later, a) > 0 ) => RankedAbove(a, b)

\* C7's case: two terms of equal positive score, one only in the later and
\* one only in the earlier query, both ranked, and the dict's items come with
\* the earlier query's term first.
C7_Witness ==
    /\ TwoTimestamps
    /\ LET later == weighted_terms(LaterEntry.query)
           earlier == weighted_terms(EarlierEntry.query)
       IN  \E a \in TermsOfPairs(later) \ TermsOfPairs(earlier) :
             \E b \in TermsOfPairs(earlier) \ TermsOfPairs(later) :
                /\ MaxScoreOf(later, a) = MaxScoreOf(earlier, b)
                /\ MaxScoreOf(later, a) > 0
                /\ PlaceOf(call.ranked, b) # 0
                /\ PlaceOf(call.ranked, a) < PlaceOf(call.ranked, b)
                /\ PlaceInOrder(call.order, b) < PlaceInOrder(call.order, a)

\* C8: every feature value feature_normalize produces for a scored term, in
\* the vocabulary or not, lies in [0, 1], and is 0 where the range of the
\* feature is degenerate.
C8_NormalizedInUnitInterval ==
    \A q \in CallTexts :
      \A i \in 1..Len(tokenize(q)) :
        \A f \in IntFeatures :
          LET v == normalized_counts(QM.corpus, tokenize(q)[i])[f]
          IN  /\ 0 <= v /\ v <= 1
              /\ QM.corpus.ranges[f][1] = QM.corpus.ranges[f][2] => v = 0

\* The tokens of a text as they are written in it.
tokens_as_written(string) == SelectTerms(wordpunct_tokenize(string))
HasUpper(token) == \E i \in 1..Len(token) : token[i] \in {"A", "B"}

\* C9: every token of a query, the first included, is scored as it is written
\* in the input: no character's case is changed, and is_capitalized is 1
\* exactly when the written token holds an uppercase character.
C9_CapitalizedAsWritten ==
    \A q \in CallTexts :
      /\ Len(tokenize(q)) = Len(tokens_as_written(q))
      /\ \A i \in 1..Len(tokenize(q)) :
            /\ tokenize(q)[i] = tokens_as_written(q)[i]
            /\ is_capitalized(tokenize(q)[i]) = 1 <=> HasUpper(tokens_as_written(q)[i])

\* C10: the score reformulate keeps for a term is the greatest score among the
\* tokens of the query that fold to that term, in whatever order they come.
C10_ReformulateKeepsMax ==
    call.op = "reformulate" =>
        LET pairs == weighted_terms(call.query)
            kept == reformulate_terms(call.query)
        IN  \A t \in DOMAIN kept : kept[t] = Fixed(MaxScoreOf(pairs, t))

(***************************************************************************)
(* The server: the imports, main(), and the three routes.                  *)
(*                                                                         *)
(* A handler has no lock.  Under a server that handles requests in         *)
(* threads, the statements of two handlers interleave; a statement on a    *)
(* list or a dict is one step, as the interpreter's lock makes it.         *)
(***************************************************************************)
\* The history stored under a session id.
history(sid) == IF sid \in DOMAIN sessions THEN sessions[sid] ELSE << >>

\* What a call of QM.reformulate from a handler may end in: weigh raises
\* AttributeError on the first token while QM.corpus is None; otherwise one
\* response per order the items() of the dict may come in.
reformulate_responses(query) ==
    IF QM.corpus.isNone
    THEN IF tokenize(query) = << >> THEN { [outcome |-> "ok", text |-> << >>] }
         ELSE { [outcome |-> "AttributeError", text |-> << >>] }
    ELSE { [outcome |-> "ok", text |-> text] :
             text \in terms_to_query_any_order(reformulate_terms(query)) }

\* What a call of QM.model from a handler may end in, likewise.
model_responses(queries) ==
    IF model_raises(queries) THEN { [outcome |-> "IndexError", text |-> << >>] }
    ELSE IF QM.corpus.isNone
    THEN IF \A i \in 1..Len(queries) : tokenize(queries[i].query) = << >>
         THEN { [outcome |-> "ok", text |-> << >>] }
         ELSE { [outcome |-> "AttributeError", text |-> << >>] }
    ELSE { [outcome |-> "ok", text |-> text] :
             text \in terms_to_query_any_order(model_terms(queries)) }

Init ==
    /\ labels \in ServerLabelFiles
    /\ config \in ServerWeights
    /\ pcMain = "load_labels"
    /\ linenr = 0
    /\ counts = << >>
    /\ corpus = NoCorpus
    /\ QM = [corpus |-> NoCorpus, weights |-> << >>, top_n |-> DefaultTopN]
    /\ sessions = << >>
    /\ clock = 0
    /\ reqs = [r \in 1..MaxRequests |-> IdleRequest]
    /\ arrivals = [sid \in SessionIds |-> << >>]
    /\ call = NoCall

\* wikipediaCount.py, lines 22-39: one well-formed record is read.
LoadLine ==
    /\ pcMain = "load_labels"
    /\ linenr < Len(labels)
    /\ labels[linenr + 1].ok
    /\ counts' = load_line(counts, labels[linenr + 1])
    /\ linenr' = linenr + 1
    /\ UNCHANGED <<labels, config, pcMain, corpus, QM, sessions, clock, reqs,
                   arrivals, call>>

\* Lines 40-43: a record that does not parse ends the import, and the process.
LoadLineRaises ==
    /\ pcMain = "load_labels"
    /\ linenr < Len(labels)
    /\ ~labels[linenr + 1].ok
    /\ pcMain' = "aborted"
    /\ UNCHANGED <<labels, config, linenr, counts, corpus, QM, sessions, clock,
                   reqs, arrivals, call>>

\* The rest of the imports, after the last record: article_count is read
\* (it feeds only the features left out), QM and sessions are constructed.
FinishImports ==
    /\ pcMain = "load_labels"
    /\ linenr = Len(labels)
    /\ pcMain' = "load_config"
    /\ QM' = [corpus |-> NoCorpus, weights |-> << >>, top_n |-> DefaultTopN]
    /\ sessions' = << >>
    /\ UNCHANGED <<labels, config, linenr, counts, corpus, clock, reqs,
                   arrivals, call>>

\* main(), lines 250-254.
LoadConfig ==
    /\ pcMain = "load_config"
    /\ pcMain' = "make_corpus"
    /\ UNCHANGED <<labels, config, linenr, counts, corpus, QM, sessions, clock,
                   reqs, arrivals, call>>

\* Line 257: corpus = Corpus()
MakeCorpus ==
    /\ pcMain = "make_corpus"
    /\ corpus' = Corpus_init
    /\ pcMain' = "set_corpus"
    /\ UNCHANGED <<labels, config, linenr, counts, QM, sessions, clock, reqs,
                   arrivals, call>>

\* Line 258: QM.set_corpus(corpus)
SetCorpus ==
    /\ pcMain = "set_corpus"
    /\ QM' = [QM EXCEPT !.corpus = corpus]
    /\ pcMain' = "set_weights"
    /\ UNCHANGED <<labels, config, linenr, counts, corpus, sessions, clock,
                   reqs, arrivals, call>>

\* Line 259: QM.weights = config["weights"]
SetWeights ==
    /\ pcMain = "set_weights"
    /\ QM' = [QM EXCEPT !.weights = config]
    /\ pcMain' = "app_run"
    /\ UNCHANGED <<labels, config, linenr, counts, corpus, sessions, clock,
                   reqs, arrivals, call>>

\* Lines 262-264: app.run(...), from where on requests are accepted.
AppRun ==
    /\ pcMain = "app_run"
    /\ pcMain' = "serving"
    /\ UNCHANGED <<labels, config, linenr, counts, corpus, QM, sessions, clock,
                   reqs, arrivals, call>>

\* A plausible slip: the app is served as soon as the module is imported.
ServerAcceptingOnImport == pcMain \notin {"load_labels", "aborted"}

\* Requests reach a handler only once app.run() is serving.
ServerAccepting == pcMain = "serving"

\* now(): the wall clock, which has moved on by any time since it was last
\* read.
now == clock..MaxClock

\* POST /query_reformulation: lines 224-228, in one step.
QueryReformulation(r) ==
    /\ ServerAccepting
    /\ reqs[r].pc = "idle"
    /\ \A p \in 1..(r - 1) : reqs[p].pc # "idle"
    /\ \E query \in PostedQueries :
        \E response \in reformulate_responses(get_data(JsonBody(query)).query) :
          reqs' = [reqs EXCEPT ![r] =
              [@ EXCEPT !.pc = "done", !.route = "query_reformulation",
                        !.query = query, !.response = response]]
    /\ UNCHANGED <<labels, config, pcMain, linenr, counts, corpus, QM, sessions,
                   clock, arrivals, call>>

\* POST /query_modelling: lines 232-236; _get_data() has no key "session",
\* so that line 234 raises KeyError whatever the body is.
QueryModelling(r) ==
    /\ ServerAccepting
    /\ reqs[r].pc = "idle"
    /\ \A p \in 1..(r - 1) : reqs[p].pc # "idle"
    /\ reqs' = [reqs EXCEPT ![r] =
          [@ EXCEPT !.pc = "done", !.route = "query_modelling",
                    !.response = [outcome |-> "KeyError", text |-> << >>]]]
    /\ UNCHANGED <<labels, config, pcMain, linenr, counts, corpus, QM, sessions,
                   clock, arrivals, call>>

\* POST /query_modelling/<session>, lines 240-241: the body is read and
\* stamped with now().
SessionArrive(r) ==
    /\ ServerAccepting
    /\ reqs[r].pc = "idle"
    /\ \A p \in 1..(r - 1) : reqs[p].pc # "idle"
    /\ \E query \in PostedQueries, sid \in SessionIds, t \in now :
        /\ reqs' = [reqs EXCEPT ![r] =
              [@ EXCEPT !.pc = "append", !.route = "query_modelling_session",
                        !.session = sid, !.query = query,
                        !.data = [query |-> get_data(JsonBody(query)).query,
                                  datetime |-> isoformat(t)]]]
        /\ arrivals' = [arrivals EXCEPT ![sid] = Append(@, <<query, t>>)]
        /\ clock' = t
    /\ UNCHANGED <<labels, config, pcMain, linenr, counts, corpus, QM, sessions,
                   call>>

\* Line 242: sessions[session].append(data)
SessionAppend(r) ==
    /\ reqs[r].pc = "append"
    /\ LET sid == reqs[r].session
           new == Append(history(sid), reqs[r].data)
       IN  /\ sessions' = [s \in DOMAIN sessions \cup {sid} |->
                              IF s = sid THEN new ELSE sessions[s]]
           /\ reqs' = [reqs EXCEPT ![r] = [@ EXCEPT !.pc = "model", !.after = new]]
    /\ UNCHANGED <<labels, config, pcMain, linenr, counts, corpus, QM, clock,
                   arrivals, call>>

\* Line 244: QM.model(sessions[session]) is answered.
SessionModel(r) ==
    /\ reqs[r].pc = "model"
    /\ \E response \in model_responses(history(reqs[r].session)) :
          reqs' = [reqs EXCEPT ![r] =
              [@ EXCEPT !.pc = "done", !.seen = history(reqs[r].session),
                        !.response = response]]
    /\ UNCHANGED <<labels, config, pcMain, linenr, counts, corpus, QM, sessions,
                   clock, arrivals, call>>

Startup ==
    \/ LoadLine \/ LoadLineRaises \/ FinishImports \/ LoadConfig
    \/ MakeCorpus \/ SetCorpus \/ SetWeights \/ AppRun

Next ==
    \/ Startup
    \/ \E r \in 1..MaxRequests :
          \/ QueryReformulation(r) \/ QueryModelling(r)
          \/ SessionArrive(r) \/ SessionAppend(r) \/ SessionModel(r)

Spec == Init /\ [][Next]_vars

(***************************************************************************)
(* Properties of the server.                                               *)
(***************************************************************************)
SessionRequests == {r \in 1..MaxRequests : reqs[r].route = "query_modelling_session"}

\* C1: requests that append to and read one session id are serialized: no
\* appended entry is lost, and every response is computed over the history as
\* it was right after the request's own append, which holds its own entry.
C1_AppendAndReadAreOneStep ==
    /\ \A sid \in SessionIds :
          Len(history(sid)) =
              Cardinality({r \in SessionRequests :
                              reqs[r].session = sid /\ reqs[r].pc \in {"model", "done"}})
    /\ \A r \in SessionRequests :
          reqs[r].pc = "done" =>
              /\ reqs[r].seen = reqs[r].after
              /\ \E i \in 1..Len(reqs[r].seen) : reqs[r].seen[i] = reqs[r].data

\* The counts and the ranges of the whole label file.
FullCounts == load_prefix(labels, Len(labels))

\* C2: no request is handled before the corpus is loaded and its ranges are
\* computed: the ranges are computed from the whole vocabulary, and once a
\* request has reached a handler QM holds that corpus and the weights.
C2_StartupBeforeRequests ==
    /\ ~corpus.isNone =>
          /\ linenr = Len(labels)
          /\ corpus.ranges = ranges_over(FullCounts)
    /\ (\E r \in 1..MaxRequests : reqs[r].pc # "idle") =>
          /\ linenr = Len(labels) /\ counts = FullCounts
          /\ ~QM.corpus.isNone
          /\ QM.corpus.ranges = ranges_over(FullCounts)
          /\ QM.weights = config

\* C2's case: a label file of two records was loaded, and a request on a
\* session was answered with a query of positive weights.
C2_Witness ==
    /\ labels = LabelFileHigh /\ linenr = 2
    /\ \E r \in SessionRequests :
          /\ reqs[r].pc = "done"
          /\ reqs[r].response.outcome = "ok"
          /\ reqs[r].response.text # << >>

\* The stored history of a session id, as (query, time) pairs.
StoredPairs(sid) ==
    [i \in 1..Len(history(sid)) |->
        <<history(sid)[i].query, parse(history(sid)[i].datetime)>>]

\* C6: once the requests posted are answered, the history stored under each
\* session id is the sequence of the queries posted to that id, in the order
\* and with the times of their arrival, and each response is one model may
\* give on the history as it was when the request's own entry had been
\* appended.
C6_HistoryIsThePostedQueries ==
    /\ (\A r \in 1..MaxRequests : reqs[r].pc \in {"idle", "done"}) =>
          \A sid \in SessionIds : StoredPairs(sid) = arrivals[sid]
    /\ \A r \in SessionRequests :
          reqs[r].pc = "done" => reqs[r].response \in model_responses(reqs[r].after)

=============================================================================
